---- MODULE Spec2Model ----
(***************************************************************************)
(* Model of the ganache Ethereum transaction factory (TransactionFactory)  *)
(* and of LegacyTransaction: classification of the type byte, the three    *)
(* factory entry points, signed / unsigned construction and signAndHash.   *)
(*                                                                         *)
(* Buffers are sequences of bytes (0..255).  Hex strings are sequences of  *)
(* nibbles (0..15), the text after the "0x" prefix.  An optional value is  *)
(* the empty tuple (absent: undefined / null) or a one-element tuple.      *)
(***************************************************************************)
EXTENDS Integers, Sequences, FiniteSets, TLC

\* ------------------------------------------------------------------ bounds
MaxKey == 2
MaxChainId == 1
MaxNonce == 1

\* ------------------------------------------------------- program constants
UNTYPED_TX_START_BYTE == 192
LEGACY_TX_TYPE_ID == 0
ACCESS_LIST_TX_TYPE_ID == 1
ADDRESS_LENGTH == 20

None == << >>
Some(x) == << x >>
Has(o) == o # << >>
Get(o) == o[1]

Byte == 0..255

\* ------------------------------------------------- canonical value types
\* Quantity.toBuffer(): the minimal big-endian form, no leading zero byte;
\* zero is the empty buffer.
RECURSIVE StripZeros(_)
StripZeros(b) ==
  IF b = << >> THEN << >>
  ELSE IF b[1] = 0 THEN StripZeros(Tail(b)) ELSE b

\* A Quantity is kept as the buffer it was made from; QToBuffer is what
\* Quantity.toBuffer() returns for it.
QToBuffer(q) == StripZeros(q)

\* Quantity.from(number).toBuffer(): big-endian bytes of a number.
RECURSIVE NatToBuf(_)
NatToBuf(n) == IF n = 0 THEN << >> ELSE NatToBuf(n \div 256) \o << n % 256 >>

\* Quantity.toNumber()
RECURSIVE BufToNat(_)
BufToNat(b) ==
  IF b = << >> THEN 0
  ELSE 256 * BufToNat(SubSeq(b, 1, Len(b) - 1)) + b[Len(b)]

\* Data.from(hex).toBuffer(): pairs of hex digits to bytes, nothing stripped
\* (an odd number of digits is read with a leading zero digit).
HexPairs(h) == [i \in 1..(Len(h) \div 2) |-> 16 * h[2 * i - 1] + h[2 * i]]

HexToBuf(h) == IF Len(h) % 2 = 1 THEN HexPairs(<< 0 >> \o h) ELSE HexPairs(h)

\* The hex text of a buffer, two digits a byte.
BufToHex(b) ==
  [i \in 1..(2 * Len(b)) |->
     IF i % 2 = 1 THEN b[(i + 1) \div 2] \div 16 ELSE b[i \div 2] % 16]

\* Quantity.from(hex).toBuffer(): the bytes of a hex quantity, canonical.
QFromHex(h) == HexToBuf(h)

\* keccak256 as an ideal hash: distinct inputs give distinct digests.
keccak(b) == [keccak |-> b]

\* ------------------------------------------------------------- RLP codec
\* Length prefix of a string (offset 128) or of a list (offset 192).
EncodeLength(len, offset) ==
  IF len < 56 THEN << offset + len >>
  ELSE LET be == NatToBuf(len) IN << offset + 55 + Len(be) >> \o be

\* One byte string as an RLP item.
EncodeItem(b) ==
  IF Len(b) = 1 /\ b[1] < 128 THEN b
  ELSE EncodeLength(Len(b), 128) \o b

RECURSIVE Flatten(_)
Flatten(ss) == IF ss = << >> THEN << >> ELSE ss[1] \o Flatten(Tail(ss))

\* encodeRange(items, start, length): the items start .. start+length-1
\* (0-based) each encoded; `length` is the byte length of the encodings.
encodeRange(items, start, length) ==
  LET out == [i \in 1..length |-> EncodeItem(items[start + i])]
  IN [length |-> Len(Flatten(out)), output |-> out]

\* digest(ranges, length): the list header for `length` payload bytes and
\* then the already encoded ranges.
digest(ranges, length) ==
  EncodeLength(length, 192) \o Flatten([i \in 1..Len(ranges) |-> Flatten(ranges[i])])

DecodeFail == [ok |-> FALSE, items |-> << >>]

RECURSIVE DecodeItems(_)
DecodeItems(b) ==
  IF b = << >> THEN [ok |-> TRUE, items |-> << >>]
  ELSE
    LET p == b[1]
        strLen == IF p < 128 THEN 1
                  ELSE IF p < 184 THEN p - 128
                  ELSE IF p < 192 THEN BufToNat(SubSeq(b, 2, 1 + (p - 183)))
                  ELSE 0
        hdrLen == IF p < 128 THEN 0
                  ELSE IF p < 184 THEN 1
                  ELSE 1 + (p - 183)
        item == SubSeq(b, hdrLen + 1, hdrLen + strLen)
        rest == DecodeItems(SubSeq(b, hdrLen + strLen + 1, Len(b)))
    IN IF p >= 192 THEN DecodeFail
       ELSE IF Len(b) < hdrLen + strLen THEN DecodeFail
       ELSE IF p = 129 /\ item[1] < 128 THEN DecodeFail
       ELSE IF p >= 184 /\ strLen < 56 THEN DecodeFail
       ELSE IF ~rest.ok THEN DecodeFail
       ELSE [ok |-> TRUE, items |-> << item >> \o rest.items]

\* decode(input): the fields of an RLP list of byte strings.  Anything else
\* (a first byte that opens no list, bytes left over after the list, a list
\* cut short) is an error.
decode(b) ==
  IF b = << >> THEN DecodeFail
  ELSE
    LET p == b[1]
        hdrLen == IF p < 248 THEN 1 ELSE 1 + (p - 247)
        payLen == IF p < 248 THEN p - 192 ELSE BufToNat(SubSeq(b, 2, hdrLen))
    IN IF p < 192 THEN DecodeFail
       ELSE IF Len(b) # hdrLen + payLen THEN DecodeFail
       ELSE DecodeItems(SubSeq(b, hdrLen + 1, Len(b)))

\* ------------------------------------------------------------- signing
\* ecsign(msgHash, privateKey, chainId) of ethereumjs-util, kept abstract: a
\* key is a small number, 0 is no valid private key; r and s are short
\* buffers standing for the 32-byte values (r may start with a zero byte);
\* the recovery id is fixed by the key and the message.
RECURSIVE SumTo(_, _)
SumTo(b, n) == IF n = 0 THEN 0 ELSE b[n] + SumTo(b, n - 1)
ByteSum(b) == SumTo(b, Len(b))

ValidPrivateKey(k) == k # 0
RecId(h, k) == (k + ByteSum(h.keccak)) % 2
SigR(h, k) == << k - 1, 16 + k >>
SigS(h, k) == << 1 + ((ByteSum(h.keccak) + k) % 255) >>

ecsign(h, k, chainId) ==
  [v |-> IF chainId # 0 THEN RecId(h, k) + (chainId * 2 + 35) ELSE RecId(h, k) + 27,
   r |-> SigR(h, k),
   s |-> SigS(h, k)]

\* Public-key recovery: no point for a recovery id other than 0 or 1 or for
\* a zero r or s; otherwise the sender the signature determines.
ecrecover(h, recid, r, s) ==
  IF recid \notin {0, 1} \/ StripZeros(r) = << >> \/ StripZeros(s) = << >>
  THEN None
  ELSE Some([msg |-> h, recid |-> recid, r |-> StripZeros(r), s |-> StripZeros(s)])

\* computeInstrinsicsLegacyTx(v, raw, chainId): sender, serialized bytes,
\* hash and the two encoded segments of a signed raw array (type at slot 0).
computeIntrinsics(v, raw, chainId) ==
  LET encodedData == encodeRange(raw, 1, 6)
      encodedSignature == encodeRange(raw, 7, 3)
      serialized == digest(<< encodedData.output, encodedSignature.output >>,
                           encodedData.length + encodedSignature.length)
      vn == BufToNat(QToBuffer(v))
      isEip155 == vn \in {chainId * 2 + 35, chainId * 2 + 36}
      recid == IF isEip155 THEN vn - (chainId * 2 + 35) ELSE vn - 27
      ending == encodeRange(<< NatToBuf(chainId), << >>, << >> >>, 0, 3)
      msg == IF isEip155
             THEN digest(<< encodedData.output, ending.output >>,
                         encodedData.length + ending.length)
             ELSE digest(<< encodedData.output >>, encodedData.length)
      from == ecrecover(keccak(msg), recid, raw[9], raw[10])
  IN [ok |-> Has(from), from |-> from, serialized |-> serialized,
      hash |-> keccak(serialized), encodedData |-> encodedData,
      encodedSignature |-> encodedSignature]

\* ------------------------------------------------------ LegacyTransaction
\* this.type = Quantity.from("0x0"); its toBuffer() is the empty buffer.
TypeBuffer == QToBuffer(QFromHex(<< 0 >>))

\* Address.from(buffer): exactly 20 bytes.
AddressOk(b) == Len(b) = ADDRESS_LENGTH

\* The fields every instance has; v, r, s and the derived fields absent.
BlankInstance(kind, chainId) ==
  [kind |-> kind, chainId |-> chainId,
   nonce |-> << >>, gasPrice |-> << >>, gas |-> << >>, to |-> << >>,
   value |-> << >>, data |-> << >>,
   v |-> None, r |-> None, s |-> None, raw |-> None,
   from |-> None, serialized |-> None, hash |-> None,
   encodedData |-> None, encodedSignature |-> None,
   signs |-> 0]

\* new LegacyTransaction(data, common) for an array of 9 buffers.
LegacyFromArray(data, chainId) ==
  LET raw == << TypeBuffer >> \o data
      toOk == Len(data[4]) = 0 \/ AddressOk(data[4])
      intr == computeIntrinsics(data[7], raw, chainId)
      inst == [BlankInstance("Legacy", chainId) EXCEPT
                 !.nonce = data[1], !.gasPrice = data[2], !.gas = data[3],
                 !.to = data[4], !.value = data[5], !.data = data[6],
                 !.v = Some(data[7]), !.r = Some(data[8]), !.s = Some(data[9]),
                 !.raw = Some(raw),
                 !.from = intr.from,
                 !.serialized = Some(intr.serialized),
                 !.hash = Some(intr.hash),
                 !.encodedData = Some(intr.encodedData),
                 !.encodedSignature = Some(intr.encodedSignature)]
  IN IF ~toOk THEN [error |-> "MalformedAddressError", tx |-> None]
     ELSE IF ~intr.ok THEN [error |-> "InvalidSignatureError", tx |-> None]
     ELSE [error |-> "none", tx |-> Some(inst)]

\* new LegacyTransaction(data, common) for an RPC object: the shared fields
\* from the base class, gasPrice here; no signature, no derived state.
LegacyFromRpc(rpc, chainId) ==
  [BlankInstance("Legacy", chainId) EXCEPT
     !.nonce = QFromHex(rpc.nonce), !.gasPrice = QFromHex(rpc.gasPrice),
     !.gas = QFromHex(rpc.gas),
     !.to = IF Has(rpc.to) THEN Get(rpc.to) ELSE << >>,
     !.value = QFromHex(rpc.value), !.data = HexToBuf(rpc.data)]

\* The access-list variant: only that such an instance was made.
AccessListInstance(chainId) == BlankInstance("AccessList", chainId)

toEthRawTransaction(t, v, r, s) ==
  << TypeBuffer, QToBuffer(t.nonce), QToBuffer(t.gasPrice), QToBuffer(t.gas),
     t.to, QToBuffer(t.value), t.data, v, r, s >>

\* A guard that never sees a signature.
AlreadySignedNever(t) == FALSE

\* signAndHash: the guard.
AlreadySigned(t) == Has(t.v)

\* signAndHash: the message hash that is signed.
SigningRaw(t) == toEthRawTransaction(t, QToBuffer(NatToBuf(t.chainId)), << >>, << >>)

\* A signing hash that takes the type slot into the encoded list.
MsgHashWithType(t) ==
  LET raw == SigningRaw(t)
      data == encodeRange(raw, 0, 7)
      ending == encodeRange(raw, 7, 3)
  IN keccak(digest(<< data.output, ending.output >>, data.length + ending.length))

MsgHash(t) ==
  LET raw == SigningRaw(t)
      data == encodeRange(raw, 1, 6)
      ending == encodeRange(raw, 7, 3)
  IN keccak(digest(<< data.output, ending.output >>, data.length + ending.length))

\* A signature taken without the chain id.
SignatureNoChainId(t, privateKey) == ecsign(MsgHash(t), privateKey, 0)

\* signAndHash: the signature taken.
Signature(t, privateKey) == ecsign(MsgHash(t), privateKey, t.chainId)

\* signAndHash: the instance after a successful call.
Signed(t, privateKey) ==
  LET sig == Signature(t, privateKey)
      v == NatToBuf(sig.v)
      raw == toEthRawTransaction(t, QToBuffer(v), QToBuffer(sig.r), QToBuffer(sig.s))
      data == encodeRange(SigningRaw(t), 1, 6)
      encodedSignature == encodeRange(raw, 7, 3)
      serialized == digest(<< data.output, encodedSignature.output >>,
                           data.length + encodedSignature.length)
  IN [t EXCEPT !.v = Some(v), !.r = Some(sig.r), !.s = Some(sig.s),
               !.raw = Some(raw),
               !.serialized = Some(serialized),
               !.hash = Some(keccak(serialized)),
               !.encodedData = Some(data),
               !.encodedSignature = Some(encodedSignature),
               !.signs = t.signs + 1]

\* ----------------------------------------------------- TransactionFactory
\* A JavaScript value given to typeOf: undefined, NaN or a number.
Undefined == [tag |-> "undefined", n |-> 0]
NaN == [tag |-> "NaN", n |-> 0]
Num(n) == [tag |-> "num", n |-> n]

\* A classification whose untyped range starts one byte late.
typeOfStrict(type) ==
  IF \/ (type.tag = "num" /\ type.n > UNTYPED_TX_START_BYTE)
     \/ (type.tag = "num" /\ type.n = LEGACY_TX_TYPE_ID)
     \/ type.tag = "undefined"
  THEN "LegacyTransaction"
  ELSE IF type.tag = "num" /\ type.n = ACCESS_LIST_TX_TYPE_ID
  THEN "EIP2930AccessListTransaction"
  ELSE "undefined"

typeOf(type) ==
  IF \/ (type.tag = "num" /\ type.n >= UNTYPED_TX_START_BYTE)
     \/ (type.tag = "num" /\ type.n = LEGACY_TX_TYPE_ID)
     \/ type.tag = "undefined"
  THEN "LegacyTransaction"
  ELSE IF type.tag = "num" /\ type.n = ACCESS_LIST_TX_TYPE_ID
  THEN "EIP2930AccessListTransaction"
  ELSE "undefined"

\* buffer[0]: the first byte, undefined for an empty buffer.
FirstByte(b) == IF b = << >> THEN Undefined ELSE Num(b[1])

\* parseInt(string): "0x" / "0X" opens a hexadecimal number, else decimal;
\* the longest run of digits is read, NaN when there is none.  A string is
\* a sequence of one-character strings.
HexChars == << "0", "1", "2", "3", "4", "5", "6", "7", "8", "9",
               "a", "b", "c", "d", "e", "f" >>
UpperChars == << "0", "1", "2", "3", "4", "5", "6", "7", "8", "9",
                 "A", "B", "C", "D", "E", "F" >>
DigitVal(c) ==
  IF \E i \in 1..16 : HexChars[i] = c THEN (CHOOSE i \in 1..16 : HexChars[i] = c) - 1
  ELSE IF \E i \in 1..16 : UpperChars[i] = c THEN (CHOOSE i \in 1..16 : UpperChars[i] = c) - 1
  ELSE 99

RECURSIVE ParseDigits(_, _, _, _)
ParseDigits(str, radix, acc, seen) ==
  IF str # << >> /\ DigitVal(str[1]) < radix
  THEN ParseDigits(Tail(str), radix, acc * radix + DigitVal(str[1]), TRUE)
  ELSE IF seen THEN Num(acc) ELSE NaN

parseInt(str) ==
  IF Len(str) >= 2 /\ str[1] = "0" /\ str[2] \in {"x", "X"}
  THEN ParseDigits(SubSeq(str, 3, Len(str)), 16, 0, FALSE)
  ELSE ParseDigits(str, 10, 0, FALSE)

\* A classification that parses the type field even when there is none.
typeOfRPCNoDefault(rpc) ==
  typeOf(IF Has(rpc.type) THEN parseInt(Get(rpc.type)) ELSE NaN)

typeOfRPC(rpc) ==
  IF ~Has(rpc.type) THEN "LegacyTransaction"
  ELSE typeOf(parseInt(Get(rpc.type)))

\* What an error message carries: text (a string) or a number.
CarriedNothing == [kind |-> "none", str |-> << >>, num |-> Undefined]
CarriedStr(str) == [kind |-> "str", str |-> str, num |-> Undefined]
CarriedNum(t) == [kind |-> "num", str |-> << >>, num |-> t]

\* ------------------------------------------------------------------ state
VARIABLES
  common,  \* the chain id of the chain context (Common) given to every call
  tx,      \* the instance the last factory call returned, absent if it threw
  prev,    \* the signed instance whose stored raw array tx was rebuilt from
  out,     \* the outcome of the last call
  arg      \* the argument of the last call

vars == << common, tx, prev, out, arg >>

NoArg == [wire |-> << >>, decoded |-> None, rpcType |-> None,
          marker |-> Undefined, key |-> 0]

Outcome(op, variant, error, carried) ==
  [op |-> op, variant |-> variant, error |-> error, carried |-> carried]

\* ----------------------------------------------------------------- inputs
ChainIds == (1..MaxChainId) \cup {1337}
Keys == 0..MaxKey

Addr20 == [i \in 1..ADDRESS_LENGTH |-> 170]
LongData == [i \in 1..26 |-> 255]

\* Field values of database and wire payloads.  << 0 >> is a nonce that is
\* not in minimal form; << 9 >> is a recipient of a wrong length.
Nonces == {NatToBuf(n) : n \in 1..MaxNonce} \cup {<< 0 >>}
Tos == {<< >>, Addr20, << 9 >>}
Datas == {<< >>, LongData}
Vs(c) == {NatToBuf(27), NatToBuf(2 * c + 35), << >>}

Payloads(c) ==
  {<< n, << 1 >>, << 82, 8 >>, to, << 128 >>, d, v, << 17 >>, << 7 >> >> :
     n \in Nonces, to \in Tos, d \in Datas, v \in Vs(c)}

\* The RLP list of a 9-field payload.
RlpList(p) ==
  LET e == encodeRange(p, 0, 9) IN digest(<< e.output >>, e.length)

\* Type markers at slot 0 of a database record, and bytes put in front of
\* the RLP list on the wire.
Markers == {<< >>, << 1 >>, << 2 >>}
Prefixes == {<< >>, << 0 >>, << 1 >>, << 2 >>}

\* RPC type strings.
TypeStrings ==
  {<< "0", "x", "0" >>, << "0", "x", "1" >>, << "0", "x", "5" >>,
   << "0", "x", "0", "5" >>, << "5" >>, << "0", "x", "c", "0" >>,
   << "0", "x" >>, << "l", "e", "g", "a", "c", "y" >>}

RpcObjects ==
  [type : {None} \cup {Some(t) : t \in TypeStrings},
   nonce : {BufToHex(NatToBuf(n)) : n \in 1..MaxNonce},
   gasPrice : {<< 1 >>},
   gas : {<< 5, 2, 0, 8 >>},
   to : {None, Some(Addr20)},
   value : {<< 8, 0 >>},
   data : {<< >>, BufToHex(LongData)}]

\* ---------------------------------------------------------------- actions
Init ==
  /\ common \in ChainIds
  /\ tx = None
  /\ prev = None
  /\ out = Outcome("none", "undefined", "none", CarriedNothing)
  /\ arg = NoArg

\* TransactionFactory.fromRpc(txData, common)
FromRpc(rpc) ==
  LET txType == typeOfRPC(rpc)
      a == [NoArg EXCEPT !.rpcType = rpc.type]
  IN /\ arg' = a
     /\ prev' = None
     /\ UNCHANGED common
     /\ IF txType = "LegacyTransaction"
        THEN /\ tx' = Some(LegacyFromRpc(rpc, common))
             /\ out' = Outcome("fromRpc", txType, "none", CarriedNothing)
        ELSE IF txType = "EIP2930AccessListTransaction"
        THEN /\ tx' = Some(AccessListInstance(common))
             /\ out' = Outcome("fromRpc", txType, "none", CarriedNothing)
        ELSE /\ tx' = None
             /\ out' = Outcome("fromRpc", txType, "UnsupportedTransactionType",
                               CarriedStr(IF Has(rpc.type) THEN Get(rpc.type) ELSE << >>))

\* A payload that keeps the type slot.
DbPayloadWithType(txData) == txData

\* fromDatabaseTx: the record without its type slot.
DbPayload(txData) == SubSeq(txData, 2, Len(txData))

\* TransactionFactory.fromDatabaseTx(txData, common); `stored` is the
\* instance txData was taken from, if any.
FromDatabaseTx(txData, stored) ==
  LET type == FirstByte(txData[1])
      data == DbPayload(txData)
      txType == typeOf(type)
      made == LegacyFromArray(data, common)
  IN /\ arg' = [NoArg EXCEPT !.marker = type]
     /\ UNCHANGED common
     /\ IF txType = "LegacyTransaction"
        THEN /\ tx' = made.tx
             /\ prev' = stored
             /\ out' = Outcome("fromDatabaseTx", txType, made.error, CarriedNothing)
        ELSE IF txType = "EIP2930AccessListTransaction"
        THEN /\ tx' = Some(AccessListInstance(common))
             /\ prev' = stored
             /\ out' = Outcome("fromDatabaseTx", txType, "none", CarriedNothing)
        ELSE /\ tx' = None
             /\ prev' = stored
             /\ out' = Outcome("fromDatabaseTx", txType, "UnsupportedTransactionType",
                               CarriedNum(type))

\* A legacy branch that drops the first byte whatever it is.
LegacyRlpInputAlwaysStrip(data, type) == SubSeq(data, 2, Len(data))

\* fromString: the bytes handed to decode() for a legacy classification.
LegacyRlpInput(data, type) ==
  IF type = Undefined THEN SubSeq(data, 2, Len(data)) ELSE data

\* TransactionFactory.fromString(txData, common)
FromString(hex) ==
  LET data == HexToBuf(hex)
      type == FirstByte(data)
      txType == typeOf(type)
      legacyIn == LegacyRlpInput(data, type)
      typedIn == SubSeq(data, 2, Len(data))
      raw == decode(IF txType = "LegacyTransaction" THEN legacyIn ELSE typedIn)
      made == LegacyFromArray(raw.items, common)
      a == [NoArg EXCEPT !.wire = hex, !.marker = type]
  IN /\ prev' = None
     /\ UNCHANGED common
     /\ IF txType = "LegacyTransaction"
        THEN /\ arg' = [a EXCEPT !.decoded = Some(legacyIn)]
             /\ IF ~raw.ok
                THEN /\ tx' = None
                     /\ out' = Outcome("fromString", txType, "RlpDecodeError", CarriedNothing)
                ELSE /\ tx' = made.tx
                     /\ out' = Outcome("fromString", txType, made.error, CarriedNothing)
        ELSE IF txType = "EIP2930AccessListTransaction"
        THEN /\ arg' = [a EXCEPT !.decoded = Some(typedIn)]
             /\ IF ~raw.ok
                THEN /\ tx' = None
                     /\ out' = Outcome("fromString", txType, "RlpDecodeError", CarriedNothing)
                ELSE /\ tx' = Some(AccessListInstance(common))
                     /\ out' = Outcome("fromString", txType, "none", CarriedNothing)
        ELSE /\ arg' = a
             /\ tx' = None
             /\ out' = Outcome("fromString", txType, "UnsupportedTransactionType",
                               CarriedNum(type))

\* LegacyTransaction.signAndHash(privateKey) on the current instance.
SignAndHash(privateKey) ==
  /\ Has(tx)
  /\ Get(tx).kind = "Legacy"
  /\ arg' = [NoArg EXCEPT !.key = privateKey]
  /\ UNCHANGED << common, prev >>
  /\ IF AlreadySigned(Get(tx))
     THEN /\ tx' = tx
          /\ out' = Outcome("signAndHash", "LegacyTransaction", "AlreadySignedError",
                            CarriedNothing)
     ELSE IF ~ValidPrivateKey(privateKey)
     THEN /\ tx' = tx
          /\ out' = Outcome("signAndHash", "LegacyTransaction", "InvalidPrivateKey",
                            CarriedNothing)
     ELSE /\ tx' = Some(Signed(Get(tx), privateKey))
          /\ out' = Outcome("signAndHash", "LegacyTransaction", "none", CarriedNothing)

CallFromRpc == \E rpc \in RpcObjects : FromRpc(rpc)

CallFromDatabaseTx ==
  \E m \in Markers, p \in Payloads(common) : FromDatabaseTx(<< m >> \o p, None)

\* The stored raw array of the current, signed instance is read back.
CallFromDatabaseTxStored ==
  /\ Has(tx)
  /\ Has(Get(tx).raw)
  /\ FromDatabaseTx(Get(Get(tx).raw), tx)

CallFromString ==
  \E pre \in Prefixes, p \in Payloads(common) : FromString(BufToHex(pre \o RlpList(p)))

CallSignAndHash == \E k \in Keys : SignAndHash(k)

Next ==
  \/ CallFromRpc
  \/ CallFromDatabaseTx
  \/ CallFromDatabaseTxStored
  \/ CallFromString
  \/ CallSignAndHash

Spec == Init /\ [][Next]_vars

\* TransactionFactory.typeOf(type) called on its own: absent or any byte.
TypeOfCall(type) ==
  /\ out' = Outcome("typeOf", typeOf(type), "none", CarriedNothing)
  /\ arg' = [NoArg EXCEPT !.marker = type]
  /\ UNCHANGED << common, tx, prev >>

CallTypeOf == \E type \in {Undefined} \cup {Num(b) : b \in Byte} : TypeOfCall(type)

NextTypeOf == CallTypeOf

SpecTypeOf == Init /\ [][NextTypeOf]_vars

\* ------------------------------------------------------------ properties
IsLegacy(o) == Has(o) /\ Get(o).kind = "Legacy"
Unsupported == "UnsupportedTransactionType"

\* The fields of an instance as the buffers Quantity / Data / Address give.
FieldBuffers(t) ==
  << QToBuffer(t.nonce), QToBuffer(t.gasPrice), QToBuffer(t.gas), t.to,
     QToBuffer(t.value), t.data >>

SignatureBuffers(t) ==
  << QToBuffer(Get(t.v)), QToBuffer(Get(t.r)), QToBuffer(Get(t.s)) >>

\* C1: typeOf maps an absent byte to Legacy, byte 0x00 to Legacy, byte 0x01
\* to AccessList, every byte >= 0xC0 to Legacy and every other byte
\* (0x02..0xBF) to no variant.
C1_Classify ==
  out.op = "typeOf" =>
    LET t == arg.marker
    IN out.variant =
         (IF t.tag = "undefined" THEN "LegacyTransaction"
          ELSE IF t.n = 0 THEN "LegacyTransaction"
          ELSE IF t.n = 1 THEN "EIP2930AccessListTransaction"
          ELSE IF t.n >= 192 THEN "LegacyTransaction"
          ELSE "undefined")

C1_Witness ==
  out.op = "typeOf" /\ arg.marker = Num(192) /\ out.variant = "LegacyTransaction"

\* C2: in fromString, for an input classified as Legacy, a literal 0x00 first
\* byte is removed (exactly that byte) before RLP decoding, and a first byte
\* >= 0xC0 leaves the input whole.
C2_StripRule ==
  (out.op = "fromString" /\ out.variant = "LegacyTransaction") =>
    LET data == HexToBuf(arg.wire)
    IN /\ Has(arg.decoded)
       /\ data[1] = 0 => Get(arg.decoded) = Tail(data)
       /\ data[1] >= 192 => Get(arg.decoded) = data

\* C3: an instance that holds a signature is never signed again: a later
\* signAndHash fails with AlreadySignedError and leaves the instance (v, r,
\* s, raw, serialized, hash, the cached segments) as it was; an instance is
\* signed at most once.
C3_SignedOnce ==
  /\ [](IsLegacy(tx) => Get(tx).signs <= 1)
  /\ [][(IsLegacy(tx) /\ Has(Get(tx).v) /\ out'.op = "signAndHash")
          => (tx' = tx /\ out'.error = "AlreadySignedError")]_vars

C3_Witness ==
  /\ IsLegacy(tx)
  /\ Get(tx).signs = 1
  /\ out.op = "signAndHash"
  /\ out.error = "AlreadySignedError"

\* C4: in every state of a Legacy instance v, r, s and the derived fields
\* (sender, serialized bytes, hash, the two cached segments) are all absent
\* or all present.
C4_AllOrNothing ==
  IsLegacy(tx) =>
    LET t == Get(tx)
    IN \/ /\ ~Has(t.v) /\ ~Has(t.r) /\ ~Has(t.s)
          /\ ~Has(t.from) /\ ~Has(t.serialized) /\ ~Has(t.hash)
          /\ ~Has(t.encodedData) /\ ~Has(t.encodedSignature)
       \/ /\ Has(t.v) /\ Has(t.r) /\ Has(t.s)
          /\ Has(t.from) /\ Has(t.serialized) /\ Has(t.hash)
          /\ Has(t.encodedData) /\ Has(t.encodedSignature)

\* C5: whenever a Legacy instance has a hash, the hash is keccak256 of its
\* serialized bytes, and the serialized bytes are the RLP list of its current
\* nonce, gasPrice, gas, to, value, data, v, r, s.
C5_HashOfSerialized ==
  (IsLegacy(tx) /\ Has(Get(tx).hash)) =>
    LET t == Get(tx)
    IN /\ Has(t.serialized)
       /\ Get(t.hash) = keccak(Get(t.serialized))
       /\ Get(t.serialized) = RlpList(FieldBuffers(t) \o SignatureBuffers(t))

\* C6 as stated: fromRpc gives a Legacy instance without a type field, an
\* AccessList instance for "0x1", and on a classification miss each entry
\* point fails with UnsupportedTransactionType and no instance; the error of
\* fromRpc carries the type value as a number (5 for "0x5").
C6_CarriesNumber ==
  /\ (out.op = "fromRpc" /\ ~Has(arg.rpcType))
       => (IsLegacy(tx) /\ out.error = "none")
  /\ (out.op = "fromRpc" /\ arg.rpcType = Some(<< "0", "x", "1" >>))
       => (Has(tx) /\ Get(tx).kind = "AccessList" /\ out.error = "none")
  /\ (out.op \in {"fromRpc", "fromDatabaseTx", "fromString"} /\ out.variant = "undefined")
       => (out.error = Unsupported /\ ~Has(tx))
  /\ (out.op = "fromRpc" /\ out.variant = "undefined")
       => out.carried = CarriedNum(parseInt(Get(arg.rpcType)))
  /\ (out.op \in {"fromDatabaseTx", "fromString"} /\ out.variant = "undefined")
       => out.carried = CarriedNum(arg.marker)

\* C6 as amended: the same, but the error of fromRpc carries the type field
\* as it was given (the string "0x5"); fromDatabaseTx and fromString carry
\* the type byte.
C6_CarriesRawType ==
  /\ (out.op = "fromRpc" /\ ~Has(arg.rpcType))
       => (IsLegacy(tx) /\ out.error = "none")
  /\ (out.op = "fromRpc" /\ arg.rpcType = Some(<< "0", "x", "1" >>))
       => (Has(tx) /\ Get(tx).kind = "AccessList" /\ out.error = "none")
  /\ (out.op \in {"fromRpc", "fromDatabaseTx", "fromString"} /\ out.variant = "undefined")
       => (out.error = Unsupported /\ ~Has(tx))
  /\ (out.op = "fromRpc" /\ out.variant = "undefined")
       => out.carried = CarriedStr(Get(arg.rpcType))
  /\ (out.op \in {"fromDatabaseTx", "fromString"} /\ out.variant = "undefined")
       => out.carried = CarriedNum(arg.marker)

C6_Witness ==
  /\ out.op = "fromRpc"
  /\ arg.rpcType = Some(<< "0", "x", "5" >>)
  /\ out.error = Unsupported
  /\ out.carried = CarriedStr(<< "0", "x", "5" >>)
  /\ ~Has(tx)

\* C7: after a successful signAndHash on an unsigned instance with chain id
\* c the stored v is recoveryId + 2*c + 35 with recoveryId 0 or 1; for chain
\* id 1 it is 37 or 38.
C7_Eip155V ==
  (out.op = "signAndHash" /\ out.error = "none") =>
    LET t == Get(tx)
        v == BufToNat(QToBuffer(Get(t.v)))
    IN /\ v \in {0 + 2 * t.chainId + 35, 1 + 2 * t.chainId + 35}
       /\ t.chainId = 1 => v \in {37, 38}

C7_Witness ==
  /\ out.op = "signAndHash"
  /\ out.error = "none"
  /\ Get(tx).chainId = 1
  /\ BufToNat(QToBuffer(Get(Get(tx).v))) \in {37, 38}

\* A valid 9-field legacy payload for chain id c: minimal quantities, a
\* recipient that is empty or 20 bytes, a v of one of the two schemes and a
\* non-zero r and s.
ValidPayload(p, c) ==
  /\ Len(p) = 9
  /\ \A i \in {1, 2, 3, 5, 7, 8, 9} : StripZeros(p[i]) = p[i]
  /\ Len(p[4]) \in {0, 20}
  /\ BufToNat(p[7]) \in {27, 28, 2 * c + 35, 2 * c + 36}
  /\ p[8] # << >>
  /\ p[9] # << >>

\* C8: for every valid 9-field legacy payload, fromString of its bare RLP
\* list gives an instance whose serialized bytes are the input bytes.
C8_RoundTrip ==
  (out.op = "fromString" /\ arg.marker.n >= 192) =>
    LET d == decode(HexToBuf(arg.wire))
    IN (d.ok /\ ValidPayload(d.items, common)) =>
         /\ out.error = "none"
         /\ IsLegacy(tx)
         /\ Has(Get(tx).serialized)
         /\ BufToHex(Get(Get(tx).serialized)) = arg.wire

C8_Witness ==
  /\ out.op = "fromString"
  /\ out.error = "none"
  /\ IsLegacy(tx)
  /\ ValidPayload(decode(HexToBuf(arg.wire)).items, common)
  /\ Get(tx).data = LongData
  /\ Len(Get(tx).to) = 20
  /\ BufToHex(Get(Get(tx).serialized)) = arg.wire

\* C9: in signAndHash the raw array has 10 slots with the type at slot 0,
\* and the type slot is in nothing that is RLP-encoded: the signed hash is
\* keccak256 of the RLP list [nonce, gasPrice, gas, to, value, data, chainId,
\* empty, empty], and the serialized bytes are the RLP list of slots 1..9
\* with the real v, r, s: the encoding of slots 1..6 joined with the
\* encoding of slots 7..9.
C9_TypeSlotNotEncoded ==
  (out.op = "signAndHash" /\ out.error = "none") =>
    LET t == Get(tx)
        raw == Get(t.raw)
        h == keccak(RlpList(FieldBuffers(t) \o << NatToBuf(t.chainId), << >>, << >> >>))
        sig == ecsign(h, arg.key, t.chainId)
        ed == Get(t.encodedData)
        es == Get(t.encodedSignature)
    IN /\ Len(raw) = 10
       /\ raw[1] = TypeBuffer
       /\ SubSeq(raw, 2, 7) = FieldBuffers(t)
       /\ Get(t.v) = NatToBuf(sig.v) /\ Get(t.r) = sig.r /\ Get(t.s) = sig.s
       /\ SubSeq(raw, 8, 10) = SignatureBuffers(t)
       /\ Get(t.serialized) = RlpList(SubSeq(raw, 2, 10))
       /\ ed.output = [i \in 1..6 |-> EncodeItem(raw[1 + i])]
       /\ es.output = [i \in 1..3 |-> EncodeItem(raw[7 + i])]
       /\ Get(t.serialized) = digest(<< ed.output, es.output >>, ed.length + es.length)

C9_Witness ==
  /\ out.op = "signAndHash"
  /\ out.error = "none"
  /\ Len(Get(Get(tx).raw)) = 10
  /\ Get(Get(tx).raw)[1] = << >>
  /\ Get(tx).data = LongData

\* C10: the stored 10-slot raw array of an instance signed by signAndHash,
\* given to fromDatabaseTx, is classified Legacy (the type slot is slot 0 and
\* is dropped), and the rebuilt instance has the same nonce, gasPrice, gas,
\* to, value, data, v, r, s, serialized bytes and hash.
C10_DatabaseRoundTrip ==
  (out.op = "fromDatabaseTx" /\ Has(prev) /\ Get(prev).signs = 1) =>
    /\ out.variant = "LegacyTransaction"
    /\ out.error = "none"
    /\ IsLegacy(tx)
    /\ FieldBuffers(Get(tx)) = FieldBuffers(Get(prev))
    /\ SignatureBuffers(Get(tx)) = SignatureBuffers(Get(prev))
    /\ Get(tx).serialized = Get(prev).serialized
    /\ Get(tx).hash = Get(prev).hash
    /\ Get(Get(tx).raw) = Get(Get(prev).raw)

C10_Witness ==
  /\ out.op = "fromDatabaseTx"
  /\ Has(prev)
  /\ Get(prev).signs = 1
  /\ IsLegacy(tx)
  /\ Get(tx).signs = 0
  /\ Get(tx).hash = Get(prev).hash
====
